---- MODULE Spec2Model ----
(***************************************************************************)
(* A model of django-revolution's zone registry (config.py) and of the     *)
(* generation orchestration (openapi/generator.py).                        *)
(*                                                                         *)
(* Strings whose content matters (zone keys, names, path prefixes) are     *)
(* sequences of one-character strings, so that strip() and lower() are     *)
(* computed and not assumed.                                               *)
(***************************************************************************)
EXTENDS Integers, Sequences, FiniteSets, TLC

VARIABLES
    \* zone registry (config.py)
    raw_zones,      \* the zones dict of the project's settings, in dict order
    settings,       \* the DjangoRevolutionSettings object, or the error raised
    zones,          \* get_zones(): key and ZoneModel per zone
    urlconfs,       \* namespaces synthesized so far
    \* generation (openapi/generator.py)
    call,           \* the entry point called on the OpenAPIGenerator
    config,         \* configuration and arguments of the call
    outcome,        \* what each external step does for each zone, once known
    pc,             \* position of the calling thread
    to_process,     \* zones_to_process
    mode,           \* "pool" or "seq" for the stage in progress
    pool_size,      \* max_workers of the executor in use
    tasks,          \* work items of the stage in progress
    schemas,        \* generated_schemas (its key set)
    ts_results,     \* typescript_results
    py_results,     \* python_results
    fs,             \* output directory tree
    invoked,        \* external commands run so far, as <<stage, zone>>
    ret,            \* what the call returned or raised
    prev,           \* what an earlier call on the same generator returned
    now             \* the last reading of the clock, in seconds

regvars == <<raw_zones, settings, zones, urlconfs>>
genvars == <<call, config, outcome, pc, to_process, mode, pool_size, tasks, schemas,
             ts_results, py_results, fs, invoked, ret, prev, now>>
vars == <<raw_zones, settings, zones, urlconfs, call, config, outcome, pc, to_process,
          mode, pool_size, tasks, schemas, ts_results, py_results, fs, invoked, ret, prev, now>>

(***************************************************************************)
(* Bounds and input alphabets                                              *)
(***************************************************************************)
MaxZones == 3

\* Python's None, as a value comparable with the character sequences
None == <<"<None>">>

RawKeys == { <<"a">>, <<"A">>, <<"b">>, <<" ">> }
AppLists == { <<>>, <<"x">>, <<"y">>, <<"z">>, <<"x", "y">> }
RawPrefixes == { None, <<"a", " ">> }

Range(s) == { s[i] : i \in 1..Len(s) }

(***************************************************************************)
(* str.strip() and str.lower()                                             *)
(***************************************************************************)
LowerChar(c) == IF c = "A" THEN "a" ELSE c

Lower(s) == [i \in 1..Len(s) |-> LowerChar(s[i])]

RECURSIVE LStrip(_)
LStrip(s) == IF s # <<>> /\ Head(s) = " " THEN LStrip(Tail(s)) ELSE s

RECURSIVE RStrip(_)
RStrip(s) == IF s # <<>> /\ s[Len(s)] = " " THEN RStrip(SubSeq(s, 1, Len(s) - 1)) ELSE s

Strip(s) == RStrip(LStrip(s))

\* truthiness of an Optional[str]
Truthy(s) == s # None /\ s # <<>>

(***************************************************************************)
(* ZoneModel(name=..., **zone_config)                                      *)
(***************************************************************************)
InvalidZone == [valid |-> FALSE, name |-> <<>>, apps |-> <<>>, path_prefix |-> None]

\* validate_name runs on the value str_strip_whitespace has already stripped
validate_name(v) == Lower(Strip(v))

\* Fields as pydantic leaves them: the post-init hook that would default
\* path_prefix to the name is not a hook of BaseModel and never runs.
ZoneModel(name, cfg) ==
    IF Strip(name) = <<>> \/ cfg.apps = <<>>
    THEN InvalidZone
    ELSE [valid |-> TRUE,
          name |-> validate_name(Strip(name)),
          apps |-> cfg.apps,
          path_prefix |-> IF cfg.path_prefix = None THEN None
                          ELSE Strip(cfg.path_prefix)]

(***************************************************************************)
(* DjangoRevolutionSettings.validate_zones                                 *)
(***************************************************************************)
Accepted == [ok |-> TRUE, error |-> "", at |-> 0]
Rejected(e, i) == [ok |-> FALSE, error |-> e, at |-> i]

\* mutant: the explicit path_prefix is ignored
zone_prefix_KeyOnly(zone_model, zone_name) == zone_name

\* prefix = zone_model.path_prefix or zone_name
zone_prefix(zone_model, zone_name) ==
    IF Truthy(zone_model.path_prefix) THEN zone_model.path_prefix ELSE zone_name

\* mutant: the apps of a validated zone are not remembered
seen_apps_NoUpdate(all_apps, zone_apps) == all_apps

\* all_apps.update(zone_apps)
seen_apps(all_apps, zone_apps) == all_apps \cup zone_apps

RECURSIVE ValidateFrom(_, _, _, _)
ValidateFrom(v, i, all_apps, all_prefixes) ==
    IF i > Len(v) THEN Accepted
    ELSE LET zone_name == v[i].key
             zone_model == ZoneModel(zone_name, v[i])
             zone_apps == Range(zone_model.apps)
             prefix == zone_prefix(zone_model, zone_name)
         IN  IF ~zone_model.valid THEN Rejected("ValidationError", i)
             ELSE IF zone_apps \cap all_apps # {}
                  THEN Rejected("Duplicate apps across zones", i)
             ELSE IF prefix \in all_prefixes
                  THEN Rejected("Duplicate path prefix", i)
             ELSE ValidateFrom(v, i + 1, seen_apps(all_apps, zone_apps),
                               all_prefixes \cup {prefix})

validate_zones(v) == IF v = <<>> THEN Accepted ELSE ValidateFrom(v, 1, {}, {})

\* get_zones(): one ZoneModel per stored key, in the order of the dict
get_zones(zs) == [i \in 1..Len(zs) |-> [key |-> zs[i].key, model |-> ZoneModel(zs[i].key, zs[i])]]

(***************************************************************************)
(* Dynamic routing synthesizer (zones.py)                                  *)
(***************************************************************************)
\* URL patterns the host framework exposes per app; "shared" is served by both
AppPatterns(app) ==
    CASE app = "x" -> {"x/list", "shared"}
      [] app = "y" -> {"y/list", "shared"}
      [] OTHER -> {"z/list"}

\* mutant: the namespace includes the project's whole URL tree
create_dynamic_urlconf_module_RootUrls(zone_name, zone) ==
    [name |-> <<"u", "_">> \o zone_name,
     patterns |-> UNION { AppPatterns(a) : a \in {"x", "y", "z"} }]

\* One namespace per zone, named after the zone name it is given, holding
\* the patterns of the zone's own apps.
create_dynamic_urlconf_module(zone_name, zone) ==
    [name |-> <<"u", "_">> \o zone_name,
     patterns |-> UNION { AppPatterns(a) : a \in Range(zone.apps) }]

\* the generator is not in use
\* the archive directory: timestamp directories under files/, the zip and
\* metadata files in them, latest/<zone>.zip, and staging directories
EmptyArchive == [dirs |-> {}, zips |-> {}, latest |-> {}, metadata |-> {}, temps |-> {}]

NoFiles == [schema_files |-> {}, ts_dirs |-> {}, py_dirs |-> {}, index |-> FALSE,
            archive |-> EmptyArchive]

GenIdle ==
    /\ call = "none"
    /\ config = <<>>
    /\ outcome = <<>>
    /\ pc = "idle"
    /\ to_process = {}
    /\ mode = "seq"
    /\ pool_size = 0
    /\ tasks = <<>>
    /\ schemas = {}
    /\ ts_results = <<>>
    /\ py_results = <<>>
    /\ fs = NoFiles
    /\ invoked = {}
    /\ ret = <<>>
    /\ prev = <<>>
    /\ now = 0

(***************************************************************************)
(* Registry specification                                                  *)
(***************************************************************************)
ZoneCfgs == [key : RawKeys, apps : AppLists, path_prefix : RawPrefixes]

Keys(v) == { v[i].key : i \in 1..Len(v) }

Unbuilt == [state |-> "unbuilt", error |-> "", at |-> 0, zones |-> <<>>]

InitRegistry ==
    /\ raw_zones = <<>>
    /\ settings = Unbuilt
    /\ zones = <<>>
    /\ urlconfs = <<>>
    /\ GenIdle

\* the project's settings gain one more entry of the zones dict (a dict holds
\* each key once)
AddZone ==
    /\ settings.state = "unbuilt"
    /\ Len(raw_zones) < MaxZones
    /\ \E cfg \in ZoneCfgs :
          /\ cfg.key \notin Keys(raw_zones)
          /\ raw_zones' = Append(raw_zones, cfg)
    /\ UNCHANGED <<settings, zones, urlconfs, genvars>>

\* DjangoRevolutionSettings(zones=raw_zones)
Construct ==
    /\ settings.state = "unbuilt"
    /\ LET r == validate_zones(raw_zones)
       IN  settings' = IF r.ok
                       THEN [state |-> "accepted", error |-> "", at |-> 0, zones |-> raw_zones]
                       ELSE [state |-> "rejected", error |-> r.error, at |-> r.at, zones |-> <<>>]
    /\ UNCHANGED <<raw_zones, zones, urlconfs, genvars>>

\* ZoneManager(config).zones
GetZones ==
    /\ settings.state = "accepted"
    /\ zones = <<>>
    /\ settings.zones # <<>>
    /\ zones' = get_zones(settings.zones)
    /\ UNCHANGED <<raw_zones, settings, urlconfs, genvars>>

\* one synthesis per zone, in registry order
Synthesize ==
    /\ zones # <<>>
    /\ Len(urlconfs) < Len(zones)
    /\ LET z == zones[Len(urlconfs) + 1]
       IN  urlconfs' = Append(urlconfs, create_dynamic_urlconf_module(z.key, z.model))
    /\ UNCHANGED <<raw_zones, settings, zones, genvars>>

NextRegistry == AddZone \/ Construct \/ GetZones \/ Synthesize

SpecRegistry == InitRegistry /\ [][NextRegistry]_vars

(***************************************************************************)
(* Registry claims                                                         *)
(***************************************************************************)
Built == settings.state # "unbuilt"

ZoneApps(v, i) == Range(v[i].apps)

\* some app identifier occurs in two different zones of the zone map
AppOverlap(v) == \E i, j \in 1..Len(v) : i # j /\ ZoneApps(v, i) \cap ZoneApps(v, j) # {}

OverlapsEarlier(v, j) == \E i \in 1..(j - 1) : ZoneApps(v, i) \cap ZoneApps(v, j) # {}

\* the first zone, in iteration order, that repeats an app of an earlier zone
FirstOverlap(v) == CHOOSE j \in 1..Len(v) :
                      /\ OverlapsEarlier(v, j)
                      /\ \A k \in 1..(j - 1) : ~OverlapsEarlier(v, k)

EveryAppInOneZone(v) ==
    \A a \in UNION { ZoneApps(v, i) : i \in 1..Len(v) } :
        Cardinality({ i \in 1..Len(v) : a \in ZoneApps(v, i) }) = 1

AllValid(v) == \A i \in 1..Len(v) : ZoneModel(v[i].key, v[i]).valid

EffPrefix(cfg) ==
    IF cfg.path_prefix # None /\ Strip(cfg.path_prefix) # <<>>
    THEN Strip(cfg.path_prefix) ELSE cfg.key

PrefixCollision(v) == \E i, j \in 1..Len(v) : i # j /\ EffPrefix(v[i]) = EffPrefix(v[j])

RepeatsEarlierPrefix(v, j) == \E i \in 1..(j - 1) : EffPrefix(v[i]) = EffPrefix(v[j])

FirstCollision(v) == CHOOSE j \in 1..Len(v) :
                        /\ RepeatsEarlierPrefix(v, j)
                        /\ \A k \in 1..(j - 1) : ~RepeatsEarlierPrefix(v, k)

PrefixesDistinct(v) == \A i, j \in 1..Len(v) : i # j => EffPrefix(v[i]) # EffPrefix(v[j])

C3_NamesAreUniqueKeys ==
    \A i \in 1..Len(zones) :
        /\ zones[i].model.name # <<>>
        /\ zones[i].model.name = Lower(zones[i].model.name)
        /\ zones[i].model.name = zones[i].key
        /\ \A j \in 1..Len(zones) : i # j => zones[i].model.name # zones[j].model.name

\* C4: a zone constructed without a path_prefix has path_prefix equal to its
\* normalized name; one constructed with a path_prefix keeps it.
C4_PathPrefixDefaultsToName ==
    \A i \in 1..Len(zones) :
        LET cfg == settings.zones[i]
            zone == zones[i].model
        IN  /\ cfg.path_prefix = None => zone.path_prefix = zone.name
            /\ cfg.path_prefix # None => zone.path_prefix = Strip(cfg.path_prefix)

\* patterns that only the apps of zone j serve, and no app of zone i
ExclusivePatterns(j, i) ==
    UNION { AppPatterns(a) : a \in Range(zones[j].model.apps) }
        \ UNION { AppPatterns(a) : a \in Range(zones[i].model.apps) }

ZoneOrder == <<"za", "zb", "zc">>

NoList == [given |-> FALSE, names |-> {}]
ZoneList(names) == [given |-> TRUE, names |-> names]

\* truthiness of the Optional[List[str]] argument: None and [] are falsy
ListTruthy(l) == l.given /\ l.names # {}

\* what the schema step can do for a zone: the synthesizer returns None or
\* raises, or the tool runs and exits zero / non-zero / times out, having
\* written the schema file or not
SchemaOutcomes == {"synth_none", "synth_raise", "zero_file", "zero_nofile",
                   "nonzero_nofile", "nonzero_file", "timeout"}

SynthOf(o) == CASE o = "synth_none" -> "none"
                [] o = "synth_raise" -> "raise"
                [] OTHER -> "module"

ProcOf(o) == CASE o \in {"zero_file", "zero_nofile", "zero_files", "zero_nofiles"} -> "zero"
               [] o = "timeout" -> "timeout"
               [] OTHER -> "nonzero"

WritesFile(o) == o \in {"zero_file", "nonzero_file"}

\* mutant: a command that timed out is reported like one that exited zero
run_command_TimeoutSucceeds(proc) ==
    [success |-> proc \in {"zero", "timeout"}, output |-> "stdout"]

\* run_command: (success, output); a timeout or an OS error is caught
run_command(proc) ==
    [success |-> proc = "zero",
     output |-> CASE proc = "zero" -> "stdout"
                  [] proc = "timeout" -> "Command timed out"
                  [] OTHER -> "stderr"]

(***************************************************************************)
(* Generation: the decision between pool and sequential execution          *)
(***************************************************************************)
UsePool(enabled, item_count, max_workers) ==
    enabled /\ item_count > 1 /\ max_workers > 1

Min(a, b) == IF a < b THEN a ELSE b

\* mutant: a list that matches no zone falls back to the whole registry
zones_to_process_FallbackAll(all_zones, l) ==
    IF ListTruthy(l) /\ l.names \cap all_zones # {}
    THEN { name \in all_zones : name \in l.names } ELSE all_zones

zones_to_process(all_zones, l) ==
    IF ListTruthy(l) THEN { name \in all_zones : name \in l.names } ELSE all_zones

(***************************************************************************)
(* Generation: work items                                                  *)
(***************************************************************************)
NullResult == [success |-> FALSE, zone_name |-> "", output_path |-> "",
               files_generated |-> 0, error_message |-> ""]

GenerationResult(success, zone, path, files, msg) ==
    [success |-> success, zone_name |-> zone, output_path |-> path,
     files_generated |-> files, error_message |-> msg]

\* what a finished work item holds: an exception, or a schema file, or a
\* (possibly empty) map with the zone's GenerationResult
Res(raised, exc, has, result, file) ==
    [raised |-> raised, exc |-> exc, has |-> has, result |-> result, file |-> file]

Pending == [status |-> "pending", res |-> Res(FALSE, "", FALSE, NullResult, FALSE)]

KindOf(t) == t[1]
ZoneOf(t) == t[2]

\* the external step a work item consults
StageOf(t) == CASE KindOf(t) \in {"ts", "ts_wrap"} -> "ts"
                [] KindOf(t) \in {"py", "py_wrap"} -> "py"
                [] OTHER -> "schema"

\* mutant: the exit status alone decides
schema_accepted_ExitOnly(success, exists) == success

\* if success and schema_file.exists()
schema_accepted(success, exists) == success /\ exists

\* _generate_single_schema: every exception is caught and gives None
generate_single_schema(z, o, files) ==
    IF SynthOf(o) # "module"
    THEN [res |-> Res(FALSE, "", FALSE, NullResult, FALSE), fs |-> files, invoked |-> FALSE]
    ELSE LET r == run_command(ProcOf(o))
             after == IF WritesFile(o)
                      THEN [files EXCEPT !.schema_files = @ \cup {z}] ELSE files
         IN  [res |-> Res(FALSE, "", FALSE, NullResult,
                          schema_accepted(r.success, z \in after.schema_files)),
              fs |-> after, invoked |-> TRUE]

\* files the TypeScript tool leaves in a zone's directory when it writes any
TsFileCount == 2

TsOutcomes == {"zero_files", "zero_nofiles", "nonzero", "timeout", "raise", "raise_empty"}

PyOutcomes == {"zero_file", "zero_nofile", "nonzero", "timeout", "unavailable", "raise",
               "raise_empty"}

\* the outcomes explored when the whole pipeline runs
PipelineSchemaOutcomes == {"zero_file", "timeout"}
PipelineTsOutcomes == {"zero_files", "nonzero", "raise"}
PipelinePyOutcomes == {"zero_file", "zero_nofile", "raise"}

TsPath(z) == "typescript/" \o z
PyPath(z) == "python/" \o z

Plain(result, files, ran) ==
    [res |-> Res(FALSE, "", TRUE, result, FALSE), fs |-> files, invoked |-> ran]

\* the outcomes in which an exception leaves generate_client
RaiseOutcomes == {"raise", "raise_empty"}

\* str(e) of the exception: some exceptions carry no message
StrOfException(o) == IF o = "raise_empty" THEN "" ELSE "boom"

Raised(files, o) ==
    [res |-> Res(TRUE, StrOfException(o), FALSE, NullResult, FALSE), fs |-> files,
     invoked |-> FALSE]

\* mutant: the zone's output directory is made before the schema is looked at
ts_generate_client_DirectoryFirst(z, o, files) ==
    Plain(GenerationResult(z \in files.schema_files, z, TsPath(z), 0,
                           IF z \in files.schema_files THEN "" ELSE "Schema file not found"),
          [files EXCEPT !.ts_dirs = @ \cup {z}], z \in files.schema_files)

\* HeyAPITypeScriptGenerator.generate_client; "raise" is an exception that
\* leaves the method
ts_generate_client(z, o, files) ==
    IF z \notin files.schema_files
    THEN Plain(GenerationResult(FALSE, z, ".", 0, "Schema file not found"), files, FALSE)
    ELSE IF o \in RaiseOutcomes THEN Raised(files, o)
    ELSE LET made == [files EXCEPT !.ts_dirs = @ \cup {z}]
             r == run_command(ProcOf(o))
         IN  IF r.success
             THEN Plain(GenerationResult(TRUE, z, TsPath(z),
                                         IF o = "zero_files" THEN TsFileCount ELSE 0, ""),
                        made, TRUE)
             ELSE Plain(GenerationResult(FALSE, z, TsPath(z), 0,
                                         "TypeScript generation failed: " \o r.output),
                        made, TRUE)

\* PythonClientGenerator.generate_client and _generate_with_datamodel
py_generate_client(z, o, files) ==
    IF z \notin files.schema_files
    THEN Plain(GenerationResult(FALSE, z, ".", 0, "Schema file not found"), files, FALSE)
    ELSE IF o \in RaiseOutcomes THEN Raised(files, o)
    ELSE LET made == [files EXCEPT !.py_dirs = @ \cup {z}]
             r == run_command(ProcOf(o))
         IN  IF o = "unavailable"
             THEN Plain(GenerationResult(FALSE, z, PyPath(z), 0,
                                         "No Python client generators available"),
                        made, FALSE)
             ELSE IF r.success /\ o = "zero_file"
             THEN Plain(GenerationResult(TRUE, z, PyPath(z), 1, ""), made, TRUE)
             ELSE IF r.success
             THEN Plain(GenerationResult(FALSE, z, PyPath(z), 0,
                                         "no output file generated"), made, TRUE)
             ELSE Plain(GenerationResult(FALSE, z, PyPath(z), 0,
                                         "datamodel-code-generator failed: " \o r.output),
                        made, TRUE)

\* a disabled client type returns the empty map before doing anything
Skipped(files) ==
    [res |-> Res(FALSE, "", FALSE, NullResult, FALSE), fs |-> files, invoked |-> FALSE]

TypeEnabled(stage) == IF stage = "ts" THEN config.ts_enabled ELSE config.py_enabled

\* a work item of a disabled client type consults nothing
Consults(t) == StageOf(t) = "schema" \/ TypeEnabled(StageOf(t))

OutcomeSet(t) ==
    CASE StageOf(t) = "schema" ->
             IF call = "generate_schemas" THEN SchemaOutcomes ELSE PipelineSchemaOutcomes
      [] StageOf(t) = "ts" -> IF call = "generate_all" THEN PipelineTsOutcomes ELSE TsOutcomes
      [] OTHER -> IF call = "generate_all" THEN PipelinePyOutcomes ELSE PyOutcomes

\* the outcomes a work item may meet: the one already met for this zone and
\* stage, or any if the step has not run for it yet
Possible(t) ==
    IF ~Consults(t) \/ outcome[<<StageOf(t), ZoneOf(t)>>] # "unset"
    THEN {outcome[<<StageOf(t), ZoneOf(t)>>]}
    ELSE OutcomeSet(t)

\* what a work item does: a schema extraction, a direct generate_client, or
\* generate_*_clients({zone: path}, [zone]) as submitted by generate_all
RunTask(t, o) ==
    CASE KindOf(t) = "schema" -> generate_single_schema(ZoneOf(t), o, fs)
      [] KindOf(t) = "ts" -> ts_generate_client(ZoneOf(t), o, fs)
      [] KindOf(t) = "py" -> py_generate_client(ZoneOf(t), o, fs)
      [] KindOf(t) = "ts_wrap" ->
             IF config.ts_enabled THEN ts_generate_client(ZoneOf(t), o, fs) ELSE Skipped(fs)
      [] OTHER ->
             IF config.py_enabled THEN py_generate_client(ZoneOf(t), o, fs) ELSE Skipped(fs)

Running == { t \in DOMAIN tasks : tasks[t].status = "running" }

\* mutant: a client stage is over with the first result collected
AllCollectedBut_FirstClient(t) ==
    KindOf(t) # "schema" \/ \A u \in DOMAIN tasks : u # t => tasks[u].status = "collected"

AllCollectedBut(t) == \A u \in DOMAIN tasks : u # t => tasks[u].status = "collected"

StageDonePc(p) == CASE p = "schemas" -> "schemas_done"
                    [] p = "ts" -> "ts_done"
                    [] p = "py" -> "py_done"
                    [] OTHER -> "clients_done"

StagePcs == {"schemas", "ts", "py", "clients"}

\* the first pending work item in iteration order (sequential loops)
IsNextInOrder(t) ==
    /\ tasks[t].status = "pending"
    /\ \E i \in 1..Len(ZoneOrder) :
          /\ ZoneOrder[i] = ZoneOf(t)
          /\ \A u \in DOMAIN tasks : \A j \in 1..(i - 1) :
                 ZoneOrder[j] = ZoneOf(u) => tasks[u].status # "pending"

\* mutant: a zone without a schema discards what was collected before it
collected_schemas_DropOnFailure(acc, z, res) == IF res.file THEN acc \cup {z} ELSE {}

\* if schema_file: generated_schemas[zone_name_result] = schema_file
collected_schemas(acc, z, res) == IF res.file THEN acc \cup {z} ELSE acc

Put(results, z, r) == [k \in DOMAIN results \cup {z} |-> IF k = z THEN r ELSE results[k]]

\* the GenerationResult built by the except branch of a collection loop
failed_result(zone, e) == GenerationResult(FALSE, zone, ".", 0, e)

\* mutant: future.result() is called outside any try
caught_at_collection_Unguarded(stage_pc) == FALSE

\* every collection loop calls future.result() inside try/except Exception
caught_at_collection(stage_pc) == stage_pc \in {"schemas", "ts", "py", "clients"}

\* what the collection loop stores for a finished work item: the result, the
\* failed result made from a caught exception, or, in generate_all's pool,
\* the default of result.get(zone, ...)
collected_result(z, res) ==
    IF res.raised THEN failed_result(z, res.exc)
    ELSE IF res.has THEN res.result
    ELSE GenerationResult(FALSE, z, ".", 0, "No result returned")

IsTs(t) == StageOf(t) = "ts"
IsPy(t) == StageOf(t) = "py"

(***************************************************************************)
(* generate_schemas                                                        *)
(***************************************************************************)
SchemasArg == IF call = "generate_all" THEN ZoneList(to_process) ELSE config.requested

SchemasBegin ==
    /\ pc = "generate_schemas"
    /\ LET ztp == zones_to_process(config.registry, SchemasArg)
           run == ztp # {} /\ config.manage_py
       IN  /\ to_process' = ztp
           /\ schemas' = {}
           /\ tasks' = IF run THEN [t \in {"schema"} \X ztp |-> Pending] ELSE <<>>
           /\ mode' = IF UsePool(config.enable_multithreading, Cardinality(ztp),
                                 config.max_workers)
                      THEN "pool" ELSE "seq"
           /\ pool_size' = Min(config.max_workers, Cardinality(ztp))
           /\ pc' = IF run THEN "schemas" ELSE "schemas_done"
    /\ UNCHANGED <<regvars, call, config, outcome, ts_results, py_results, fs, invoked, ret, prev, now>>

\* a worker thread of the executor takes a submitted work item
PoolStart ==
    /\ pc \in StagePcs
    /\ mode = "pool"
    /\ Cardinality(Running) < pool_size
    /\ \E t \in DOMAIN tasks :
          /\ tasks[t].status = "pending"
          /\ tasks' = [tasks EXCEPT ![t].status = "running"]
    /\ UNCHANGED <<regvars, call, config, outcome, pc, to_process, mode, pool_size,
                   schemas, ts_results, py_results, fs, invoked, ret, prev, now>>

\* the work item runs to its end in its worker thread
PoolFinish ==
    /\ pc \in StagePcs
    /\ mode = "pool"
    /\ \E t \in DOMAIN tasks : \E o \in Possible(t) :
          /\ tasks[t].status = "running"
          /\ LET r == RunTask(t, o)
             IN  /\ tasks' = [tasks EXCEPT ![t] = [status |-> "done", res |-> r.res]]
                 /\ fs' = r.fs
                 /\ invoked' = IF r.invoked THEN invoked \cup {<<StageOf(t), ZoneOf(t)>>}
                               ELSE invoked
                 /\ outcome' = [outcome EXCEPT ![<<StageOf(t), ZoneOf(t)>>] = o]
    /\ UNCHANGED <<regvars, call, config, pc, to_process, mode, pool_size, schemas,
                   ts_results, py_results, ret, prev, now>>

\* the calling thread takes the next completed future (as_completed)
PoolCollect ==
    /\ pc \in StagePcs
    /\ mode = "pool"
    /\ \E t \in DOMAIN tasks :
          /\ tasks[t].status = "done"
          /\ LET res == tasks[t].res
                 z == ZoneOf(t)
                 escapes == res.raised /\ ~caught_at_collection(pc)
             IN  /\ tasks' = [tasks EXCEPT ![t].status = "collected"]
                 /\ schemas' = IF KindOf(t) = "schema"
                               THEN collected_schemas(schemas, z, res) ELSE schemas
                 /\ ts_results' = IF IsTs(t) /\ ~escapes
                                  THEN Put(ts_results, z, collected_result(z, res))
                                  ELSE ts_results
                 /\ py_results' = IF IsPy(t) /\ ~escapes
                                  THEN Put(py_results, z, collected_result(z, res))
                                  ELSE py_results
                 /\ pc' = IF escapes THEN "raised"
                          ELSE IF AllCollectedBut(t) THEN StageDonePc(pc) ELSE pc
                 /\ ret' = IF escapes THEN [kind |-> "exception", from |-> pc] ELSE ret
    /\ UNCHANGED <<regvars, call, config, outcome, to_process, mode, pool_size,
                   fs, invoked, prev, now>>

\* one iteration of a sequential loop, in the calling thread; the loops of
\* generate_all(schemas) in the client generators have no exception handler
SeqStep ==
    /\ pc \in StagePcs
    /\ mode = "seq"
    /\ \E t \in DOMAIN tasks : \E o \in Possible(t) :
          /\ IsNextInOrder(t)
          /\ LET r == RunTask(t, o)
                 z == ZoneOf(t)
                 escapes == r.res.raised
             IN  /\ tasks' = [tasks EXCEPT ![t] = [status |-> "collected", res |-> r.res]]
                 /\ fs' = r.fs
                 /\ invoked' = IF r.invoked THEN invoked \cup {<<StageOf(t), z>>}
                               ELSE invoked
                 /\ outcome' = [outcome EXCEPT ![<<StageOf(t), z>>] = o]
                 /\ schemas' = IF KindOf(t) = "schema"
                               THEN collected_schemas(schemas, z, r.res) ELSE schemas
                 /\ ts_results' = IF IsTs(t) /\ ~escapes
                                  THEN Put(ts_results, z, r.res.result) ELSE ts_results
                 /\ py_results' = IF IsPy(t) /\ ~escapes
                                  THEN Put(py_results, z, r.res.result) ELSE py_results
                 /\ pc' = IF escapes THEN "raised"
                          ELSE IF AllCollectedBut(t) THEN StageDonePc(pc) ELSE pc
                 /\ ret' = IF escapes THEN [kind |-> "exception", from |-> pc] ELSE ret
    /\ UNCHANGED <<regvars, call, config, to_process, mode, pool_size, prev, now>>

\* return generated_schemas
SchemasReturn ==
    /\ pc = "schemas_done"
    /\ call = "generate_schemas"
    /\ pc' = "returned"
    /\ ret' = [kind |-> "schemas", keys |-> schemas]
    /\ UNCHANGED <<regvars, call, config, outcome, to_process, mode, pool_size, tasks,
                   schemas, ts_results, py_results, fs, invoked, prev, now>>

(***************************************************************************)
(* Specification of generate_schemas called on a three-zone registry       *)
(***************************************************************************)
Stages == {"schema", "ts", "py"}

SchemaRequests == { NoList, ZoneList({}), ZoneList({"za", "zb"}), ZoneList({"zb", "ghost"}),
                    ZoneList({"ghost"}) }

WorkerChoices == {1, 2, 3}

InitSchemas ==
    /\ raw_zones = <<>> /\ settings = Unbuilt /\ zones = <<>> /\ urlconfs = <<>>
    /\ call = "generate_schemas"
    /\ config \in [registry : {{"za", "zb", "zc"}},
                   requested : SchemaRequests,
                   enable_multithreading : BOOLEAN,
                   max_workers : WorkerChoices,
                   ts_enabled : {TRUE},
                   py_enabled : {TRUE},
                   monorepo_enabled : {FALSE},
                   archive : {FALSE},
                   manage_py : BOOLEAN]
    /\ outcome = [k \in Stages \X {"za", "zb", "zc"} |-> "unset"]
    /\ pc = "generate_schemas"
    /\ to_process = {}
    /\ mode = "seq"
    /\ pool_size = 0
    /\ tasks = <<>>
    /\ schemas = {}
    /\ ts_results = <<>>
    /\ py_results = <<>>
    /\ fs \in [schema_files : {{}, {"za"}}, ts_dirs : {{}}, py_dirs : {{}}, index : {FALSE},
                archive : {EmptyArchive}]
    /\ invoked = {}
    /\ ret = <<>>
    /\ prev = <<>>
    /\ now = 0

NextSchemas ==
    SchemasBegin \/ PoolStart \/ PoolFinish \/ PoolCollect \/ SeqStep \/ SchemasReturn

SpecSchemas == InitSchemas /\ [][NextSchemas]_vars

(***************************************************************************)
(* Claims about generate_schemas                                           *)
(***************************************************************************)
SchemaOutcome(z) == outcome[<<"schema", z>>]

Synthesized(z) == SchemaOutcome(z) \notin {"unset", "synth_none", "synth_raise"}

ToolSucceeded(z) == Synthesized(z) /\ ProcOf(SchemaOutcome(z)) = "zero"

SchemasReturned == call = "generate_schemas" /\ pc = "returned"

ListedFailure(z) ==
    SchemaOutcome(z) \in {"synth_none", "synth_raise", "nonzero_nofile",
                          "nonzero_file", "timeout"}

\* a zone yields a schema when its entry conditions all hold
Yields(z) == Synthesized(z) /\ ToolSucceeded(z) /\ z \in fs.schema_files

AtLeastTwoRun ==
    SchemasReturned /\ config.manage_py /\ Cardinality(to_process) >= 2

NoPath == [given |-> FALSE, exists |-> FALSE]
PathTo(exists) == [given |-> TRUE, exists |-> exists]

\* what a zip holds: the client trees copied into the staging directory
Content(ts, py) == [typescript |-> ts, python |-> py, complete |-> TRUE]

\* a zip file whose writing was interrupted
Partial == [typescript |-> FALSE, python |-> FALSE, complete |-> FALSE]

\* where the body of the call can fail
FailPoints == {"none", "copy", "zip", "zip_latest", "metadata"}

PutZip(zs, t, zone, c) ==
    { z \in zs : ~(z.t = t /\ z.zone = zone) } \cup {[t |-> t, zone |-> zone, content |-> c]}

PutLatest(ls, zone, c) ==
    { l \in ls : l.zone # zone } \cup {[zone |-> zone, content |-> c]}

\* the function imports shutil locally inside the copy branches only, so
\* the name is bound in the finally clause only if a copy branch ran
shutil_bound(tsp, pyp) == (tsp.given /\ tsp.exists) \/ (pyp.given /\ pyp.exists)

\* mutant: the staging directory is made before the paths are looked at
archive_zone_clients_StagesFirst(a, zone, tsp, pyp, t, fail) ==
    [success |-> FALSE,
     archive |-> [a EXCEPT !.dirs = @ \cup {t}, !.temps = @ \cup {<<zone, t>>}]]

\* archive_zone_clients(zone, typescript_path, python_path) at clock reading
\* t: the result's success flag and the archive directory afterwards
archive_zone_clients(a, zone, tsp, pyp, t, fail) ==
    IF ~tsp.given /\ ~pyp.given THEN [success |-> FALSE, archive |-> a]
    ELSE LET content == Content(tsp.given /\ tsp.exists, pyp.given /\ pyp.exists)
             staged == [a EXCEPT !.dirs = @ \cup {t}, !.temps = @ \cup {<<zone, t>>}]
             stamped == [staged EXCEPT !.zips = PutZip(@, t, zone, content)]
             broken == [stamped EXCEPT !.latest = PutLatest(@, zone, Partial)]
             both == [stamped EXCEPT !.latest = PutLatest(@, zone, content)]
             full == [both EXCEPT !.metadata = @ \cup {<<t, zone>>}]
             body == CASE fail = "copy" /\ shutil_bound(tsp, pyp) ->
                              [ok |-> FALSE, archive |-> staged]
                       [] fail = "zip" -> [ok |-> FALSE, archive |-> staged]
                       [] fail = "zip_latest" -> [ok |-> FALSE, archive |-> broken]
                       [] fail = "metadata" -> [ok |-> FALSE, archive |-> both]
                       [] OTHER -> [ok |-> TRUE, archive |-> full]
         IN  IF shutil_bound(tsp, pyp)
             THEN [success |-> body.ok,
                   archive |-> [body.archive EXCEPT !.temps = @ \ {<<zone, t>>}]]
             ELSE [success |-> FALSE, archive |-> body.archive]

\* the clock is read in whole seconds and never runs backwards
ClockValues == {0, 1}

ClockReadings == { t \in {now, now + 1} : t \in ClockValues }

\* the failures of the archive step explored when the whole pipeline runs
PipelineFailPoints == {"none", "zip"}

\* mutant: the output path of every result is passed on
ResultPath_AnyResult(results, z, dirs) ==
    IF z \in DOMAIN results THEN PathTo(z \in dirs) ELSE NoPath

\* the path archive_all_clients passes for a zone: the output_path of a
\* successful result, else None
ResultPath(results, z, dirs) ==
    IF z \in DOMAIN results /\ results[z].success THEN PathTo(z \in dirs) ELSE NoPath

\* the loop of archive_all_clients: one archive_zone_clients call per zone
\* with a result; the calls made, their results and the counters
RECURSIVE archive_all_results(_, _, _, _, _, _, _)
archive_all_results(acc, i, tsr, pyr, files, t, fail) ==
    IF i > Len(ZoneOrder) THEN acc
    ELSE LET z == ZoneOrder[i]
         IN  IF z \notin DOMAIN tsr \cup DOMAIN pyr
             THEN archive_all_results(acc, i + 1, tsr, pyr, files, t, fail)
             ELSE LET ts_path == ResultPath(tsr, z, files.ts_dirs)
                      py_path == ResultPath(pyr, z, files.py_dirs)
                      r == archive_zone_clients(acc.archive, z, ts_path, py_path, t, fail)
                  IN  archive_all_results(
                          [archive |-> r.archive,
                           zones |-> Put(acc.zones, z,
                                         [success |-> r.success, typescript_path |-> ts_path,
                                          python_path |-> py_path]),
                           summary |-> [total_zones |-> acc.summary.total_zones + 1,
                                        successful |-> acc.summary.successful
                                                           + (IF r.success THEN 1 ELSE 0),
                                        failed |-> acc.summary.failed
                                                       + (IF r.success THEN 0 ELSE 1)]],
                          i + 1, tsr, pyr, files, t, fail)

NoArchiveResults(a) ==
    [archive |-> a, zones |-> <<>>,
     summary |-> [total_zones |-> 0, successful |-> 0, failed |-> 0]]

\* archive_all_clients: the archive directory afterwards
archive_all_clients(a, i, tsr, pyr, files, t, fail) ==
    archive_all_results(NoArchiveResults(a), i, tsr, pyr, files, t, fail).archive

(***************************************************************************)
(* Client stages and generate_all                                          *)
(***************************************************************************)
\* mutant: every result counts as a success
Successful_Everything(results) == DOMAIN results

Successful(results) == { z \in DOMAIN results : results[z].success }

RECURSIVE SumFiles(_, _)
SumFiles(results, keys) ==
    IF keys = {} THEN 0
    ELSE LET z == CHOOSE k \in keys : TRUE
         IN  results[z].files_generated + SumFiles(results, keys \ {z})

\* the GenerationSummary built at the end of generate_all, duration apart
Summary(n, tsr, pyr) ==
    [kind |-> "summary",
     total_zones |-> n,
     successful_typescript |-> Cardinality(Successful(tsr)),
     successful_python |-> Cardinality(Successful(pyr)),
     failed_typescript |-> Cardinality(DOMAIN tsr) - Cardinality(Successful(tsr)),
     failed_python |-> Cardinality(DOMAIN pyr) - Cardinality(Successful(pyr)),
     total_files_generated |-> SumFiles(tsr, Successful(tsr)) + SumFiles(pyr, Successful(pyr)),
     typescript_results |-> tsr,
     python_results |-> pyr]

\* the summary of the two early returns
ZeroSummary == Summary(0, <<>>, <<>>)

\* the methods class MonorepoSync defines
MonorepoSyncMethods ==
    {"sync_typescript_client", "sync_python_client", "_sync_client",
     "_update_monorepo_files", "_update_typescript_monorepo_files",
     "_update_python_monorepo_files", "_run_monorepo_commands", "sync_all_clients",
     "_find_python_client_path", "_update_workspace_config", "get_status",
     "clean_monorepo_clients"}

\* looking up a method the class does not define raises AttributeError
AttributeError(method) == method \notin MonorepoSyncMethods

\* sync_to_monorepo: return self.monorepo_sync.sync_all()
sync_to_monorepo_raises == config.monorepo_enabled /\ AttributeError("sync_all")

\* _sync_to_monorepo_multithreaded: returns early without successful
\* TypeScript zones, else submits self.monorepo_sync.sync_zone per zone
sync_multithreaded_raises(tsr) ==
    config.monorepo_enabled /\ Successful(tsr) # {} /\ AttributeError("sync_zone")

DirectCalls == {"generate_typescript_clients", "generate_python_clients"}

CallStage == IF call = "generate_typescript_clients" THEN "ts" ELSE "py"

\* generate_typescript_clients(None, zones) / generate_python_clients(None, zones)
\* up to the call of generate_schemas
ClientStageEnter ==
    /\ pc = "enter"
    /\ call \in DirectCalls
    /\ pc' = IF TypeEnabled(CallStage) THEN "generate_schemas" ELSE "returned"
    /\ ret' = IF TypeEnabled(CallStage) THEN ret ELSE [kind |-> "results", results |-> <<>>]
    /\ UNCHANGED <<regvars, call, config, outcome, to_process, mode, pool_size, tasks,
                   schemas, ts_results, py_results, fs, invoked, prev, now>>

\* generate_all up to the call of generate_schemas
GenerateAllBegin ==
    /\ pc = "generate_all"
    /\ call = "generate_all"
    /\ LET ztp == zones_to_process(config.registry, config.requested)
           early == config.registry = {} \/ ztp = {}
       IN  /\ to_process' = ztp
           /\ pc' = IF early THEN "returned" ELSE "generate_schemas"
           /\ ret' = IF early THEN ZeroSummary ELSE <<>>
           /\ fs' = IF early THEN fs ELSE NoFiles
    /\ tasks' = <<>>
    /\ schemas' = {}
    /\ ts_results' = <<>>
    /\ py_results' = <<>>
    /\ invoked' = {}
    /\ UNCHANGED <<regvars, call, config, outcome, mode, pool_size, prev, now>>

PoolForClients == UsePool(config.enable_multithreading, Cardinality(schemas),
                          config.max_workers)

\* generate_all: the TypeScript and Python work items of every schema are
\* submitted to one executor
CombinedBegin ==
    /\ pc = "schemas_done"
    /\ call = "generate_all"
    /\ PoolForClients
    /\ tasks' = [t \in {"ts_wrap", "py_wrap"} \X schemas |-> Pending]
    /\ mode' = "pool"
    /\ pool_size' = Min(config.max_workers, Cardinality(schemas) * 2)
    /\ pc' = "clients"
    /\ UNCHANGED <<regvars, call, config, outcome, to_process, schemas, ts_results,
                   py_results, fs, invoked, ret, prev, now>>

\* the body of a client stage after its schemas are known
StageBegin(stage, kind, donepc) ==
    LET run == TypeEnabled(stage) /\ schemas # {}
    IN  /\ tasks' = IF run THEN [t \in {kind} \X schemas |-> Pending] ELSE <<>>
        /\ mode' = IF PoolForClients THEN "pool" ELSE "seq"
        /\ pool_size' = Min(config.max_workers, Cardinality(schemas))
        /\ pc' = IF run THEN stage ELSE donepc
        /\ UNCHANGED <<regvars, call, config, outcome, to_process, schemas, ts_results,
                       py_results, fs, invoked, ret, prev, now>>

\* generate_typescript_clients, called directly or by the sequential branch
TsBegin ==
    /\ pc = "schemas_done"
    /\ \/ call = "generate_typescript_clients"
       \/ call = "generate_all" /\ ~PoolForClients
    /\ StageBegin("ts", "ts", "ts_done")

\* generate_python_clients, called directly or by the sequential branch
PyBegin ==
    /\ \/ call = "generate_python_clients" /\ pc = "schemas_done"
       \/ call = "generate_all" /\ pc = "ts_done"
    /\ StageBegin("py", "py", "py_done")

\* return results (direct call of a client stage)
ClientsReturn ==
    /\ call \in DirectCalls
    /\ pc = IF call = "generate_typescript_clients" THEN "ts_done" ELSE "py_done"
    /\ pc' = "returned"
    /\ ret' = [kind |-> "results",
               results |-> IF call = "generate_typescript_clients"
                           THEN ts_results ELSE py_results]
    /\ UNCHANGED <<regvars, call, config, outcome, to_process, mode, pool_size, tasks,
                   schemas, ts_results, py_results, fs, invoked, prev, now>>

\* _generate_consolidated_index: a failure to render or write is logged
ConsolidatedIndex ==
    /\ call = "generate_all"
    /\ pc \in {"py_done", "clients_done"}
    /\ \E written \in BOOLEAN : fs' = [fs EXCEPT !.index = written]
    /\ pc' = "archive"
    /\ UNCHANGED <<regvars, call, config, outcome, to_process, mode, pool_size, tasks,
                   schemas, ts_results, py_results, invoked, ret, prev, now>>

\* if archive: archive_clients(...); a zone is archived from the paths of
\* its successful results, and a failed archive is reported, not raised
ArchiveClients ==
    /\ pc = "archive"
    /\ \E t \in ClockReadings : \E fail \in PipelineFailPoints :
          /\ now' = IF config.archive THEN t ELSE now
          /\ fs' = IF config.archive
                   THEN [fs EXCEPT !.archive = archive_all_clients(@, 1, ts_results,
                                                                   py_results, fs, t, fail)]
                   ELSE fs
    /\ pc' = "sync"
    /\ UNCHANGED <<regvars, call, config, outcome, to_process, mode, pool_size, tasks,
                   schemas, ts_results, py_results, invoked, ret, prev>>

\* if monorepo.enabled: the multithreaded sync or sync_to_monorepo(); the
\* multithreaded sync makes its executor for the successful TypeScript zones
SyncToMonorepo ==
    /\ pc = "sync"
    /\ LET threaded == UsePool(config.enable_multithreading,
                               Cardinality(DOMAIN ts_results), config.max_workers)
           executor == /\ config.monorepo_enabled
                       /\ threaded
                       /\ Successful(ts_results) # {}
           raises == IF threaded
                     THEN sync_multithreaded_raises(ts_results)
                     ELSE sync_to_monorepo_raises
       IN  /\ pc' = IF raises THEN "raised" ELSE "summarize"
           /\ ret' = IF raises THEN [kind |-> "exception", from |-> "sync"] ELSE ret
           /\ mode' = IF executor THEN "pool"
                      ELSE IF config.monorepo_enabled THEN "seq" ELSE mode
           /\ pool_size' = IF executor
                           THEN Min(config.max_workers, Cardinality(Successful(ts_results)))
                           ELSE pool_size
    /\ UNCHANGED <<regvars, call, config, outcome, to_process, tasks,
                   schemas, ts_results, py_results, fs, invoked, prev, now>>

\* the counters and the returned GenerationSummary
Summarize ==
    /\ pc = "summarize"
    /\ ret' = Summary(Cardinality(to_process), ts_results, py_results)
    /\ pc' = "returned"
    /\ UNCHANGED <<regvars, call, config, outcome, to_process, mode, pool_size, tasks,
                   schemas, ts_results, py_results, fs, invoked, prev, now>>

\* after a run with enable_multithreading = False returned its summary, the
\* same generator runs again with multithreading on and enough workers; the
\* external steps behave for each zone as they did before
CallAgain ==
    /\ pc = "returned"
    /\ call = "generate_all"
    /\ prev = <<>>
    /\ ~config.enable_multithreading
    /\ \E w \in WorkerChoices :
          /\ w >= Cardinality(config.registry)
          /\ config' = [config EXCEPT !.enable_multithreading = TRUE, !.max_workers = w]
    /\ prev' = ret
    /\ ret' = <<>>
    /\ pc' = "generate_all"
    /\ UNCHANGED <<regvars, call, outcome, to_process, mode, pool_size, tasks, schemas,
                   ts_results, py_results, fs, invoked, now>>

(***************************************************************************)
(* Specification of generate_all and of the client stages on a two-zone    *)
(* registry                                                                *)
(***************************************************************************)
PipelineRequests == { NoList, ZoneList({"za"}), ZoneList({"ghost"}) }

PipelineConfigs ==
    [registry : {{"za", "zb"}},
     requested : PipelineRequests,
     enable_multithreading : BOOLEAN,
     max_workers : WorkerChoices,
     ts_enabled : BOOLEAN,
     py_enabled : BOOLEAN,
     monorepo_enabled : BOOLEAN,
     archive : BOOLEAN,
     manage_py : BOOLEAN]

InitAll ==
    /\ raw_zones = <<>> /\ settings = Unbuilt /\ zones = <<>> /\ urlconfs = <<>>
    /\ call \in {"generate_all"} \cup DirectCalls
    /\ config \in PipelineConfigs
    /\ call \in DirectCalls => ~config.monorepo_enabled /\ ~config.archive
    /\ outcome = [k \in Stages \X {"za", "zb"} |-> "unset"]
    /\ pc = IF call = "generate_all" THEN "generate_all" ELSE "enter"
    /\ to_process = {}
    /\ mode = "seq"
    /\ pool_size = 0
    /\ tasks = <<>>
    /\ schemas = {}
    /\ ts_results = <<>>
    /\ py_results = <<>>
    /\ fs = NoFiles
    /\ invoked = {}
    /\ ret = <<>>
    /\ prev = <<>>
    /\ now = 0

NextAll ==
    \/ ClientStageEnter \/ GenerateAllBegin \/ SchemasBegin
    \/ PoolStart \/ PoolFinish \/ PoolCollect \/ SeqStep
    \/ CombinedBegin \/ TsBegin \/ PyBegin \/ ClientsReturn
    \/ ConsolidatedIndex \/ ArchiveClients \/ SyncToMonorepo \/ Summarize
    \/ CallAgain

SpecAll == InitAll /\ [][NextAll]_vars

(***************************************************************************)
(* Claims about generate_all and the client stages                         *)
(***************************************************************************)
SameResults(a, b) ==
    /\ DOMAIN a = DOMAIN b
    /\ \A z \in DOMAIN a :
          /\ a[z].success = b[z].success
          /\ a[z].files_generated = b[z].files_generated
          /\ a[z].error_message = b[z].error_message

SameContent(a, b) ==
    /\ a.total_zones = b.total_zones
    /\ a.successful_typescript = b.successful_typescript
    /\ a.successful_python = b.successful_python
    /\ a.failed_typescript = b.failed_typescript
    /\ a.failed_python = b.failed_python
    /\ a.total_files_generated = b.total_files_generated
    /\ SameResults(a.typescript_results, b.typescript_results)
    /\ SameResults(a.python_results, b.python_results)

BothRunsReturned == call = "generate_all" /\ pc = "returned" /\ prev # <<>>

\* C8: whenever a run of generate_all with multithreading off and a run with
\* multithreading on and max_workers >= the number of zones both return, on
\* the same registry, zone list, enabled client types and tool outcomes, the
\* two summaries have the same content apart from the duration
C8_SequentialAndParallelSummariesAgree ==
    BothRunsReturned => SameContent(prev, ret)

GeneratorRaised(stage) ==
    \E z \in config.registry : outcome[<<stage, z>>] \in RaiseOutcomes

\* C9: generate_all on a non-empty registry never lets an exception escape,
\* whatever the configuration and the outcomes of its steps (stated here
\* for the runs in which no client generator itself raised)
C9_GenerateAllNeverRaises ==
    (call = "generate_all" /\ ~GeneratorRaised("ts") /\ ~GeneratorRaised("py"))
        => pc # "raised"

ClientTask(t) == KindOf(t) \in {"ts", "py", "ts_wrap", "py_wrap"}

ResultsOf(t) == IF IsTs(t) THEN ts_results ELSE py_results

ClientPoolTasks == IF mode = "pool" THEN { t \in DOMAIN tasks : ClientTask(t) } ELSE {}

\* C10: in a client stage run on a thread pool, a work item's exception is
\* caught when its future is collected and stored as a failed result with
\* files_generated = 0 under that zone's name, the stage does not raise, and
\* once the stage is over every submitted work item has an entry
C10_PoolExceptionsBecomeFailedResults ==
    /\ pc = "raised" => ~(mode = "pool" /\ ret.from \in {"ts", "py", "clients"})
    /\ \A t \in ClientPoolTasks :
          /\ tasks[t].status = "collected" => ZoneOf(t) \in DOMAIN ResultsOf(t)
          /\ (tasks[t].status = "collected" /\ tasks[t].res.raised) =>
                /\ ~ResultsOf(t)[ZoneOf(t)].success
                /\ ResultsOf(t)[ZoneOf(t)].files_generated = 0
                /\ ResultsOf(t)[ZoneOf(t)].zone_name = ZoneOf(t)
          /\ pc \notin {"ts", "py", "clients", "raised"} => tasks[t].status = "collected"

\* generate_all returned after its combined pool collected a work item that
\* raised and work items that succeeded for both client types
C10_Witness ==
    /\ call = "generate_all"
    /\ pc = "returned"
    /\ \E t \in ClientPoolTasks : tasks[t].res.raised
    /\ Successful(ts_results) # {}
    /\ Successful(py_results) # {}

NoneFound ==
    /\ call = "generate_all"
    /\ config.registry # {}
    /\ ListTruthy(config.requested)
    /\ config.requested.names \cap config.registry = {}

\* C11: generate_all given a non-empty zone list with no name in the
\* (non-empty) registry does nothing but return the all-zero summary with
\* empty result maps; it never raises
C11_UnknownZonesGiveZeroSummary ==
    NoneFound =>
        /\ pc \in {"generate_all", "returned"}
        /\ pc = "returned" =>
              /\ ret.kind = "summary"
              /\ ret.total_zones = 0
              /\ ret.successful_typescript = 0 /\ ret.successful_python = 0
              /\ ret.failed_typescript = 0 /\ ret.failed_python = 0
              /\ ret.total_files_generated = 0
              /\ DOMAIN ret.typescript_results = {}
              /\ DOMAIN ret.python_results = {}
              /\ invoked = {}

\* generate_all(["ghost"]) has returned on the two-zone registry
C11_Witness == NoneFound /\ pc = "returned" /\ ret.total_zones = 0

SummaryReturned == call = "generate_all" /\ pc = "returned"

NumSuccess(results) == Cardinality({ z \in DOMAIN results : results[z].success = TRUE })

RECURSIVE FilesOfSuccesses(_, _)
FilesOfSuccesses(results, i) ==
    IF i = 0 THEN 0
    ELSE (IF ZoneOrder[i] \in DOMAIN results /\ results[ZoneOrder[i]].success
          THEN results[ZoneOrder[i]].files_generated ELSE 0)
         + FilesOfSuccesses(results, i - 1)

CountersAgree(succ, failed, results, total) ==
    /\ succ = NumSuccess(results)
    /\ succ + failed = Cardinality(DOMAIN results)
    /\ Cardinality(DOMAIN results) <= total

\* C12: in every summary generate_all returns, each client type's successes
\* are the results with success = true, successes plus failures are the
\* number of results, which is at most total_zones, and the file total is
\* the sum of files_generated over the successful results of both types
C12_SummaryArithmetic ==
    SummaryReturned =>
        /\ CountersAgree(ret.successful_typescript, ret.failed_typescript,
                         ret.typescript_results, ret.total_zones)
        /\ CountersAgree(ret.successful_python, ret.failed_python,
                         ret.python_results, ret.total_zones)
        /\ ret.total_files_generated =
              FilesOfSuccesses(ret.typescript_results, Len(ZoneOrder))
              + FilesOfSuccesses(ret.python_results, Len(ZoneOrder))

\* a summary over two zones with one TypeScript failure, one TypeScript
\* success and files counted from both client types
C12_Witness ==
    /\ SummaryReturned
    /\ ret.total_zones = 2
    /\ ret.successful_typescript = 1
    /\ ret.failed_typescript = 1
    /\ ret.successful_python >= 1
    /\ ret.total_files_generated > TsFileCount

MessageMatchesSuccess(results) ==
    \A z \in DOMAIN results : (results[z].error_message = "") <=> results[z].success

\* C13: every GenerationResult stored by a generation path has an empty
\* error_message exactly when success is true, whatever exception or tool
\* output caused a failure
C13_ErrorMessageEmptyIffSuccess ==
    MessageMatchesSuccess(ts_results) /\ MessageMatchesSuccess(py_results)

(***************************************************************************)
(* Specification of a client stage called with an explicit schema map,     *)
(* whose files may or may not exist                                        *)
(***************************************************************************)
InitClient ==
    /\ raw_zones = <<>> /\ settings = Unbuilt /\ zones = <<>> /\ urlconfs = <<>>
    /\ call \in DirectCalls
    /\ config \in [registry : {{"za", "zb"}},
                   requested : {NoList},
                   enable_multithreading : BOOLEAN,
                   max_workers : WorkerChoices,
                   ts_enabled : {TRUE},
                   py_enabled : {TRUE},
                   monorepo_enabled : {FALSE},
                   archive : {FALSE},
                   manage_py : {TRUE}]
    /\ outcome = [k \in Stages \X {"za", "zb"} |-> "unset"]
    /\ pc = "schemas_done"
    /\ to_process = {}
    /\ mode = "seq"
    /\ pool_size = 0
    /\ tasks = <<>>
    /\ schemas \in (SUBSET {"za", "zb"}) \ {{}}
    /\ ts_results = <<>>
    /\ py_results = <<>>
    /\ fs \in [schema_files : SUBSET {"za", "zb"}, ts_dirs : {{}}, py_dirs : {{}},
               index : {FALSE}, archive : {EmptyArchive}]
    /\ invoked = {}
    /\ ret = <<>>
    /\ prev = <<>>
    /\ now = 0

NextClient ==
    TsBegin \/ PyBegin \/ PoolStart \/ PoolFinish \/ PoolCollect \/ SeqStep \/ ClientsReturn

SpecClient == InitClient /\ [][NextClient]_vars

(***************************************************************************)
(* Claims about generate_client                                            *)
(***************************************************************************)
StageResults == IF CallStage = "ts" THEN ts_results ELSE py_results

StageDirs == IF CallStage = "ts" THEN fs.ts_dirs ELSE fs.py_dirs

MissingSchema(z) == z \in schemas /\ z \notin fs.schema_files

\* C14: for both client generators, a zone whose schema file does not exist
\* gets a failed result without the generator command being run for it and
\* without its output directory being created
C14_MissingSchemaFailsWithoutSideEffects ==
    call \in DirectCalls =>
        \A z \in config.registry : MissingSchema(z) =>
            /\ <<CallStage, z>> \notin invoked
            /\ z \notin StageDirs
            /\ \A t \in DOMAIN tasks :
                  (ZoneOf(t) = z /\ tasks[t].status \in {"done", "collected"}) =>
                      /\ ~tasks[t].res.raised
                      /\ tasks[t].res.has
                      /\ ~tasks[t].res.result.success
                      /\ tasks[t].res.result.files_generated = 0
            /\ z \in DOMAIN StageResults => ~StageResults[z].success

\* a stage returned a failed result for a zone without schema file and a
\* successful one, with its directory, for a zone that has one
C14_Witness ==
    /\ call \in DirectCalls
    /\ pc = "returned"
    /\ \E z \in schemas : MissingSchema(z) /\ z \in DOMAIN StageResults
    /\ \E z \in schemas : z \in StageDirs /\ StageResults[z].success

ClientOutcome(stage, z) == outcome[<<stage, z>>]

\* C15: for both client types a result has success = true only if the
\* generator exited successfully and left its generated output; a
\* successful exit without output is reported as a failure
C15_SuccessNeedsExitAndOutput ==
    /\ \A z \in DOMAIN ts_results :
          ts_results[z].success => ClientOutcome("ts", z) = "zero_files"
    /\ \A z \in DOMAIN py_results :
          py_results[z].success => ClientOutcome("py", z) = "zero_file"

(***************************************************************************)
(* Claims about timeouts                                                   *)
(***************************************************************************)
TimedOut(stage, z) == outcome[<<stage, z>>] = "timeout"

TimeoutFailure(results, stage, text) ==
    \A z \in DOMAIN results :
        TimedOut(stage, z) =>
            /\ ~results[z].success
            /\ results[z].files_generated = 0
            /\ results[z].error_message = text

StageOver == pc \notin StagePcs /\ pc # "raised"

\* C16: a timed-out command is an ordinary failure: run_command returns
\* (false, a message naming the timeout) and raises nothing, the zone gets no
\* schema or a failed result carrying that message, and every other work
\* item of the stage is still run and collected
C16_TimeoutIsOrdinaryFailure ==
    /\ run_command("timeout") = [success |-> FALSE, output |-> "Command timed out"]
    /\ \A t \in DOMAIN tasks :
          tasks[t].res.raised => outcome[<<StageOf(t), ZoneOf(t)>>] \in RaiseOutcomes
    /\ \A z \in schemas : ~TimedOut("schema", z)
    /\ TimeoutFailure(ts_results, "ts", "TypeScript generation failed: Command timed out")
    /\ TimeoutFailure(py_results, "py", "datamodel-code-generator failed: Command timed out")
    /\ StageOver => \A t \in DOMAIN tasks : tasks[t].status = "collected"

\* a TypeScript stage on the pool returned with one zone's generator timed
\* out and the other zone's client generated
C16_Witness ==
    /\ call = "generate_typescript_clients"
    /\ pc = "returned"
    /\ mode = "pool"
    /\ \E z \in DOMAIN ts_results : TimedOut("ts", z) /\ ~ts_results[z].success
    /\ \E z \in DOMAIN ts_results : ts_results[z].success

(***************************************************************************)
(* Specification of successive archive_zone_clients calls on one archive   *)
(* directory                                                               *)
(***************************************************************************)
ArchiveZones == {"za"}

\* a client path argument: None, a path that is not on disk, a client tree
TsPaths == {NoPath, PathTo(FALSE), PathTo(TRUE)}
PyPaths == {NoPath, PathTo(TRUE)}

InitArchive ==
    /\ raw_zones = <<>> /\ settings = Unbuilt /\ zones = <<>> /\ urlconfs = <<>>
    /\ call = "archive_zone_clients"
    /\ config = <<>>
    /\ outcome = <<>>
    /\ pc = "idle"
    /\ to_process = {}
    /\ mode = "seq"
    /\ pool_size = 0
    /\ tasks = <<>>
    /\ schemas = {}
    /\ ts_results = <<>>
    /\ py_results = <<>>
    /\ fs = NoFiles
    /\ invoked = {}
    /\ ret = <<>>
    /\ prev = <<>>
    /\ now = 0

\* what latest/<zone>.zip holds, if it exists
LatestOf(a, zone) == { l.content : l \in { m \in a.latest : m.zone = zone } }

\* one call, from entry to return; the clock is read only past the check
\* of the two paths
ArchiveZone ==
    /\ call = "archive_zone_clients"
    /\ \E zone \in ArchiveZones, tsp \in TsPaths, pyp \in PyPaths, fail \in FailPoints,
          t \in ClockReadings :
          LET r == archive_zone_clients(fs.archive, zone, tsp, pyp, t, fail)
          IN  /\ fs' = [fs EXCEPT !.archive = r.archive]
              /\ now' = IF tsp.given \/ pyp.given THEN t ELSE now
              /\ ret' = [kind |-> "archive", zone_name |-> zone, typescript_path |-> tsp,
                         python_path |-> pyp, timestamp |-> t, success |-> r.success,
                         latest |-> LatestOf(r.archive, zone)]
    /\ prev' = ret
    /\ pc' = "archived"
    /\ UNCHANGED <<regvars, call, config, outcome, to_process, mode, pool_size, tasks,
                   schemas, ts_results, py_results, invoked>>

NextArchive == ArchiveZone

SpecArchive == InitArchive /\ [][NextArchive]_vars

(***************************************************************************)
(* Claims about archive_zone_clients                                       *)
(***************************************************************************)
\* C17: a call given neither a TypeScript nor a Python path reports failure
\* and leaves the archive directory as it was: no timestamp directory, no
\* latest archive, no staging directory, no metadata file is created
C17_NoPathsNoArchive ==
    [][(~ret'.typescript_path.given /\ ~ret'.python_path.given)
          => (~ret'.success /\ fs'.archive = fs.archive)]_vars

\* a call without paths has returned failure on an archive directory that
\* earlier calls had filled
C17_Witness ==
    /\ pc = "archived"
    /\ ~ret.typescript_path.given /\ ~ret.python_path.given
    /\ ~ret.success
    /\ fs.archive.zips # {}
    /\ fs.archive.temps = {}

\* C18: between calls, whatever way the finished calls ended, no staging
\* directory temp_<zone>_<timestamp> is left under the archive directory
C18_NoStagingDirectoryRemains ==
    call = "archive_zone_clients" => fs.archive.temps = {}

HasZip(a, t, zone) == \E z \in a.zips : z.t = t /\ z.zone = zone

Repeated ==
    /\ pc = "archived"
    /\ prev # <<>>
    /\ prev.zone_name = ret.zone_name
    /\ prev.typescript_path = ret.typescript_path
    /\ prev.python_path = ret.python_path
    /\ prev.success /\ ret.success

\* C19: two successive successful calls for one zone with identical inputs,
\* at any two call times, leave the same content in latest/<zone>.zip and
\* two distinct timestamped archives, each with its metadata file, both
\* present after the second call
C19_RepeatKeepsBothArchives ==
    Repeated =>
        /\ ret.latest = prev.latest
        /\ ret.timestamp # prev.timestamp
        /\ HasZip(fs.archive, prev.timestamp, ret.zone_name)
        /\ HasZip(fs.archive, ret.timestamp, ret.zone_name)
        /\ <<prev.timestamp, ret.zone_name>> \in fs.archive.metadata
        /\ <<ret.timestamp, ret.zone_name>> \in fs.archive.metadata

(***************************************************************************)
(* Claims about the archive store across generate_all runs                 *)
(***************************************************************************)
\* C20: across generate_all(archive=True) runs the archive store only grows:
\* no step of a run removes a timestamp directory under archive/files/ or a
\* timestamped archive in it; only latest/<zone>.zip is overwritten
C20_TimestampedArchivesAreKept ==
    [][/\ fs.archive.dirs \subseteq fs'.archive.dirs
       /\ \A z \in fs.archive.zips : HasZip(fs'.archive, z.t, z.zone)]_vars

(***************************************************************************)
(* ArchiveManager._create_zip_archive on a staged tree                     *)
(***************************************************************************)
Chars(w) ==
    CASE w = "error_" -> <<"e", "r", "r", "o", "r", "_">>
      [] w = ".log" -> <<".", "l", "o", "g">>
      [] w = ".txt" -> <<".", "t", "x", "t">>
      [] w = ".ts" -> <<".", "t", "s">>
      [] w = "Error_" -> <<"E", "r", "r", "o", "r", "_">>
      [] OTHER -> <<w>>

\* file names, as sequences of characters
FileNames ==
    { Chars("error_") \o Chars("x") \o Chars(".log"),
      Chars("error_") \o Chars(".log"),
      Chars("error_") \o Chars("x") \o Chars(".log") \o Chars(".txt"),
      Chars("error_") \o Chars("x") \o Chars(".txt"),
      Chars("x") \o Chars("error_") \o Chars(".log"),
      Chars("Error_") \o Chars("x") \o Chars(".log"),
      Chars("x") \o Chars(".log"),
      Chars("error_") \o Chars("l") \o Chars("o") \o Chars("g"),
      Chars("x") \o Chars(".ts") }

\* the staging directory and the directories below it
SourcePath == <<"temp_zone_timestamp">>
StagedDirs == {<<>>, <<"typescript">>, <<"typescript", "core">>, <<"python">>}

MaxStaged == 2

\* entries of the staged tree: regular files and directories
StagedEntries ==
    [parent : { SourcePath \o d : d \in StagedDirs }, name : FileNames, is_file : {TRUE}]
    \cup [parent : {SourcePath}, name : {Chars("error_") \o Chars("x") \o Chars(".log")},
          is_file : {FALSE}]

RECURSIVE TreesUpTo(_)
TreesUpTo(n) ==
    IF n = 0 THEN {{}}
    ELSE LET smaller == TreesUpTo(n - 1)
         IN  smaller \cup { t \cup {e} : t \in smaller, e \in StagedEntries }

StagedTrees == TreesUpTo(MaxStaged)

startswith(s, prefix) ==
    Len(s) >= Len(prefix) /\ SubSeq(s, 1, Len(prefix)) = prefix

\* str.rfind('.') with positions counted from 0, -1 when there is no dot
rfind_dot(s) ==
    LET at == { i \in 1..Len(s) : s[i] = "." }
    IN  IF at = {} THEN 0 - 1 ELSE (CHOOSE i \in at : \A j \in at : j <= i) - 1

\* PurePath.suffix: the last dot-separated part of the name, dot included,
\* unless the dot is the first or the last character
suffix(s) ==
    LET i == rfind_dot(s)
    IN  IF 0 < i /\ i < Len(s) - 1 THEN SubSeq(s, i + 1, Len(s)) ELSE <<>>

\* mutant: every log file is skipped
skipped_AnyLog(name) == suffix(name) = Chars(".log")

\* the files the zip loop passes over
skipped(name) == startswith(name, Chars("error_")) /\ suffix(name) = Chars(".log")

\* file_path.relative_to(source_path)
relative_to(file, source_path) ==
    [parent |-> SubSeq(file.parent, Len(source_path) + 1, Len(file.parent)),
     name |-> file.name]

\* the members written into the zip file
create_zip_archive(tree, source_path) ==
    { relative_to(f, source_path) : f \in { e \in tree : e.is_file /\ ~skipped(e.name) } }

ZipTargets == {"timestamped_path", "latest_path"}

InitZip ==
    /\ raw_zones = <<>> /\ settings = Unbuilt /\ zones = <<>> /\ urlconfs = <<>>
    /\ call = "_create_zip_archive"
    /\ config = <<>>
    /\ outcome = <<>>
    /\ pc = "staged"
    /\ to_process = {}
    /\ mode = "seq"
    /\ pool_size = 0
    /\ tasks = <<>>
    /\ schemas = {}
    /\ ts_results = <<>>
    /\ py_results = <<>>
    /\ fs \in [temp_dir : StagedTrees, zips : {<<>>}]
    /\ invoked = {}
    /\ ret = <<>>
    /\ prev = <<>>
    /\ now = 0

\* archive_zone_clients zips the staging directory twice: into the timestamp
\* directory, then into latest/
CreateZipArchive ==
    /\ call = "_create_zip_archive"
    /\ \E target \in ZipTargets \ DOMAIN fs.zips :
          /\ target = "latest_path" => "timestamped_path" \in DOMAIN fs.zips
          /\ fs' = [fs EXCEPT !.zips = [k \in DOMAIN fs.zips \cup {target} |->
                                          IF k = target
                                          THEN create_zip_archive(fs.temp_dir, SourcePath)
                                          ELSE fs.zips[k]]]
    /\ pc' = "zipped"
    /\ UNCHANGED <<regvars, call, config, outcome, to_process, mode, pool_size, tasks,
                   schemas, ts_results, py_results, invoked, ret, prev, now>>

NextZip == CreateZipArchive

SpecZip == InitZip /\ [][NextZip]_vars

endswith(s, tail) ==
    Len(s) >= Len(tail) /\ SubSeq(s, Len(s) - Len(tail) + 1, Len(s)) = tail

ErrorLog(name) == startswith(name, Chars("error_")) /\ endswith(name, Chars(".log"))

\* the path of a staged entry below the staging root
Below(e) == [parent |-> SubSeq(e.parent, 2, Len(e.parent)), name |-> e.name]

\* C21: a zip written from the staging directory has no member whose name
\* starts with error_ and ends with .log, at any depth, and has every other
\* staged file as a member under its path relative to the staging root
C21_ErrorLogsLeftOutOthersIncluded ==
    call = "_create_zip_archive" =>
        \A k \in DOMAIN fs.zips :
            /\ \A m \in fs.zips[k] : ~ErrorLog(m.name)
            /\ \A e \in fs.temp_dir :
                   (e.is_file /\ ~ErrorLog(e.name)) => Below(e) \in fs.zips[k]
            /\ \A m \in fs.zips[k] :
                   \E e \in fs.temp_dir : e.is_file /\ Below(e) = m

C21_Witness ==
    /\ call = "_create_zip_archive"
    /\ DOMAIN fs.zips = ZipTargets
    /\ \E e \in fs.temp_dir : e.is_file /\ ErrorLog(e.name) /\ Len(e.parent) = 3
    /\ Cardinality(fs.zips["latest_path"]) = 1

(***************************************************************************)
(* ArchiveManager.clean_old_archives                                       *)
(***************************************************************************)
\* time is counted in half days, so that the clock has a time of day;
\* calendar days are numbered from 0
MaxDay == 3

timedelta_days(d) == 2 * d

\* the part of a directory name before the first underscore: eight digits
\* of a calendar day, or something else
DateOf(day) == [digits |-> TRUE, day |-> day]
NoDate == [digits |-> FALSE, day |-> 0]

ValueError == [ok |-> FALSE, t |-> 0]

\* datetime.strptime(date_str, '%Y%m%d'): midnight of the day
strptime(date_str) ==
    IF date_str.digits THEN [ok |-> TRUE, t |-> timedelta_days(date_str.day)]
    ELSE ValueError

\* entries of archive/files: timestamp directories, a directory whose name
\* has a date but no time, a directory with another name, a plain file
FilesEntries ==
    [date_str : { DateOf(d) : d \in 0..MaxDay }, rest : {"120000"}, is_dir : {TRUE}]
    \cup {[date_str |-> DateOf(0), rest |-> "manual", is_dir |-> TRUE],
          [date_str |-> NoDate, rest |-> "backup", is_dir |-> TRUE],
          [date_str |-> DateOf(0), rest |-> "120000", is_dir |-> FALSE]}

KeepDaysChoices == {0, 1, 2}

\* mutant: the cutoff is the present moment
cutoff_date_Now(t, keep_days) == t

cutoff_date(t, keep_days) == t - timedelta_days(keep_days)

\* what the loop does with one entry of archive/files
cleaned(e, cutoff) ==
    IF ~e.is_dir THEN "skipped"
    ELSE LET dir_date == strptime(e.date_str)
         IN  IF ~dir_date.ok THEN "skipped"
             ELSE IF dir_date.t < cutoff THEN "removed" ELSE "kept"

clean_old_archives(a, keep_days, t) ==
    IF ~a.exists THEN [removed |-> 0, kept |-> 0, archive |-> a]
    ELSE LET cutoff == cutoff_date(t, keep_days)
             gone == { e \in a.files : cleaned(e, cutoff) = "removed" }
             stay == { e \in a.files : cleaned(e, cutoff) = "kept" }
         IN  [removed |-> Cardinality(gone), kept |-> Cardinality(stay),
              archive |-> [a EXCEPT !.files = @ \ gone]]

InitClean ==
    /\ raw_zones = <<>> /\ settings = Unbuilt /\ zones = <<>> /\ urlconfs = <<>>
    /\ call = "clean_old_archives"
    /\ config = <<>>
    /\ outcome = <<>>
    /\ pc = "idle"
    /\ to_process = {}
    /\ mode = "seq"
    /\ pool_size = 0
    /\ tasks = <<>>
    /\ schemas = {}
    /\ ts_results = <<>>
    /\ py_results = <<>>
    /\ \E files \in SUBSET FilesEntries, exists \in BOOLEAN :
          /\ ~exists => files = {}
          /\ fs = [exists |-> exists, files |-> files,
                   latest |-> IF exists THEN {"za"} ELSE {}]
    /\ invoked = {}
    /\ ret = <<>>
    /\ prev = <<>>
    /\ now \in { timedelta_days(d) + h : d \in 0..MaxDay, h \in {0, 1} }

CleanOldArchives ==
    /\ call = "clean_old_archives"
    /\ \E keep_days \in KeepDaysChoices :
          LET r == clean_old_archives(fs, keep_days, now)
          IN  /\ fs' = r.archive
              /\ ret' = [kind |-> "cleanup", keep_days |-> keep_days,
                         removed |-> r.removed, kept |-> r.kept]
    /\ pc' = "cleaned"
    /\ UNCHANGED <<regvars, call, config, outcome, to_process, mode, pool_size, tasks,
                   schemas, ts_results, py_results, invoked, prev, now>>

\* time passes between calls
ClockTick ==
    /\ call = "clean_old_archives"
    /\ now < timedelta_days(MaxDay) + 1
    /\ now' = now + 1
    /\ UNCHANGED <<regvars, call, config, outcome, pc, to_process, mode, pool_size, tasks,
                   schemas, ts_results, py_results, fs, invoked, ret, prev>>

NextClean == CleanOldArchives \/ ClockTick

SpecClean == InitClean /\ [][NextClean]_vars

\* a files/ subdirectory whose name yields a date
Parseable(e) == e.is_dir /\ strptime(e.date_str).ok

GeneratedManifest == [private |-> FALSE, version |-> "1.0.0", scripts |-> {"test"}]
NoManifest == <<>>

\* a directory that is not there
Absent == [exists |-> FALSE, entries |-> {}, manifest |-> NoManifest]
Tree(entries, manifest) == [exists |-> TRUE, entries |-> entries, manifest |-> manifest]

\* the names copytree leaves out, in every directory it visits
ignore_files(files) == files \cap {"package.json", "node_modules"}

\* _update_typescript_monorepo_files: the manifest is rewritten if the
\* target has one, and tsconfig.json is written
update_typescript_monorepo_files(target) ==
    Tree(target.entries \cup {"tsconfig.json"},
         IF "package.json" \in target.entries
         THEN [target.manifest EXCEPT !.private = TRUE, !.version = "workspace:*",
                                     !.scripts = @ \cup {"build", "clean", "dev", "lint",
                                                         "type-check"}]
         ELSE target.manifest)

\* _sync_client for a TypeScript client: the result's success flag and the
\* monorepo afterwards
sync_client(mono, zone_name, client, fault) ==
    IF ~client.exists \/ fault = "source_gone" THEN [success |-> FALSE, monorepo |-> mono]
    ELSE IF ~mono.exists THEN [success |-> FALSE, monorepo |-> mono]
    ELSE IF fault = "copy_error"
         THEN [success |-> FALSE,
               monorepo |-> [mono EXCEPT !.targets[zone_name] = Tree({}, NoManifest)]]
    ELSE LET kept == client.entries \ ignore_files(client.entries)
             copied == Tree(kept, IF "package.json" \in kept THEN client.manifest
                                  ELSE NoManifest)
         IN  [success |-> TRUE,
              monorepo |-> [mono EXCEPT !.targets[zone_name] =
                                            update_typescript_monorepo_files(copied)]]

\* sync_typescript_client
sync_typescript_client(enabled, mono, zone_name, client, fault) ==
    IF ~enabled THEN [success |-> FALSE, monorepo |-> mono]
    ELSE sync_client(mono, zone_name, client, fault)

\* mutant: only successful syncs are counted
tally_SuccessOnly(summary, success) ==
    IF success
    THEN [summary EXCEPT !.successful = @ + 1, !.total_synced = @ + 1]
    ELSE summary

\* the counters after one zone directory
tally(summary, success) ==
    IF success
    THEN [summary EXCEPT !.successful = @ + 1, !.total_synced = @ + 1]
    ELSE [summary EXCEPT !.failed = @ + 1, !.total_synced = @ + 1]

\* the loop of sync_all_clients over the zone directories of
\* clients/typescript
RECURSIVE sync_zone_dirs(_, _, _, _)
sync_zone_dirs(acc, i, clients, faults) ==
    IF i > Len(ZoneOrder) THEN acc
    ELSE LET z == ZoneOrder[i]
         IN  IF z \notin DOMAIN clients THEN sync_zone_dirs(acc, i + 1, clients, faults)
             ELSE LET r == sync_typescript_client(TRUE, acc.monorepo, z, clients[z],
                                                  faults[z])
                  IN  sync_zone_dirs([typescript |-> Put(acc.typescript, z,
                                                         [success |-> r.success]),
                                      summary |-> tally(acc.summary, r.success),
                                      monorepo |-> r.monorepo],
                                     i + 1, clients, faults)

\* sync_all_clients: the per-zone loop, the copy of the consolidated index,
\* the build of the main package (its outcome is only logged)
sync_all_clients(enabled, files, faults, build) ==
    IF ~enabled THEN [success |-> FALSE, error |-> "Monorepo sync disabled",
                      monorepo |-> files.monorepo]
    ELSE LET looped == sync_zone_dirs([typescript |-> <<>>,
                                       summary |-> [total_synced |-> 0, successful |-> 0,
                                                    failed |-> 0],
                                       monorepo |-> files.monorepo],
                                      1, files.clients, faults)
             with_index == IF files.index /\ looped.monorepo.exists
                           THEN [looped.monorepo EXCEPT !.index = TRUE]
                           ELSE looped.monorepo
             built == IF files.monorepo.build_manifest
                      THEN run_command(build).success
                      ELSE FALSE
         IN  [typescript |-> looped.typescript, python |-> <<>>,
              summary |-> looped.summary, monorepo |-> with_index]

SyncZones == {"za", "zb"}

\* generated TypeScript clients: a bare client, and one with a manifest and
\* installed dependencies
ClientTrees ==
    {Tree({"index.ts"}, NoManifest),
     Tree({"index.ts", "package.json", "node_modules"}, GeneratedManifest)}

\* what a target directory holds before the call: nothing, or an earlier
\* sync's files
TargetTrees == {Absent, Tree({"stale.ts", "package.json"}, GeneratedManifest)}

SyncFaults == {"none", "copy_error", "source_gone"}

InitSync ==
    /\ raw_zones = <<>> /\ settings = Unbuilt /\ zones = <<>> /\ urlconfs = <<>>
    /\ call \in {"sync_all_clients", "sync_typescript_client"}
    /\ config \in [monorepo_enabled : BOOLEAN]
    /\ outcome = <<>>
    /\ pc = "idle"
    /\ to_process = {}
    /\ mode = "seq"
    /\ pool_size = 0
    /\ tasks = <<>>
    /\ schemas = {}
    /\ ts_results = <<>>
    /\ py_results = <<>>
    /\ \E dirs \in SUBSET SyncZones, index \in BOOLEAN, there \in BOOLEAN,
          build_manifest \in BOOLEAN :
          \E clients \in [dirs -> ClientTrees],
             targets \in [SyncZones -> IF there THEN TargetTrees ELSE {Absent}] :
             fs = [clients |-> clients, index |-> index,
                   monorepo |-> [exists |-> there, targets |-> targets, index |-> FALSE,
                                 build_manifest |-> there /\ build_manifest]]
    /\ invoked = {}
    /\ ret = <<>>
    /\ prev = <<>>
    /\ now = 0

SyncAllClients ==
    /\ call = "sync_all_clients"
    /\ pc = "idle"
    /\ \E faults \in [DOMAIN fs.clients -> SyncFaults], build \in {"zero", "nonzero", "timeout"} :
          LET r == sync_all_clients(config.monorepo_enabled, fs, faults, build)
          IN  /\ fs' = [fs EXCEPT !.monorepo = r.monorepo]
              /\ ret' = [kind |-> "sync_all", result |-> [f \in DOMAIN r \ {"monorepo"} |-> r[f]],
                         faults |-> faults, build |-> build, before |-> fs.monorepo]
    /\ pc' = "synced"
    /\ UNCHANGED <<regvars, call, config, outcome, to_process, mode, pool_size, tasks,
                   schemas, ts_results, py_results, invoked, prev, now>>

SyncTypescriptClient ==
    /\ call = "sync_typescript_client"
    /\ pc = "idle"
    /\ \E zone_name \in SyncZones, fault \in SyncFaults \ {"source_gone"} :
          LET client == IF zone_name \in DOMAIN fs.clients THEN fs.clients[zone_name]
                        ELSE Absent
              r == sync_typescript_client(config.monorepo_enabled, fs.monorepo, zone_name,
                                          client, fault)
          IN  /\ fs' = [fs EXCEPT !.monorepo = r.monorepo]
              /\ ret' = [kind |-> "sync_typescript", zone_name |-> zone_name,
                         success |-> r.success, client |-> client,
                         before |-> fs.monorepo]
    /\ pc' = "synced"
    /\ UNCHANGED <<regvars, call, config, outcome, to_process, mode, pool_size, tasks,
                   schemas, ts_results, py_results, invoked, prev, now>>

NextSync == SyncAllClients \/ SyncTypescriptClient

SpecSync == InitSync /\ [][NextSync]_vars

(***************************************************************************)
(* Claims about the monorepo sync                                          *)
(***************************************************************************)
SyncedWithManifest ==
    /\ call = "sync_typescript_client"
    /\ pc = "synced"
    /\ ret.success
    /\ "package.json" \in ret.client.entries

\* C23: after a successful TypeScript sync of a client that has a package
\* manifest, the zone's target directory holds the manifest rewritten for
\* the workspace (private, version workspace:*, build and lint scripts) and
\* tsconfig.json, holds no node_modules, and holds nothing of an earlier
\* target directory
C23_SyncedTargetHasWorkspaceManifest ==
    SyncedWithManifest =>
        LET target == fs.monorepo.targets[ret.zone_name]
        IN  /\ target.exists
            /\ "tsconfig.json" \in target.entries
            /\ "node_modules" \notin target.entries
            /\ "stale.ts" \notin target.entries
            /\ "package.json" \in target.entries
            /\ target.manifest # NoManifest
            /\ target.manifest.private
            /\ target.manifest.version = "workspace:*"
            /\ {"build", "lint"} \subseteq target.manifest.scripts

\* a synced target is rebuilt from the client alone and has its tsconfig.json
C23_SyncedTargetIsFresh ==
    SyncedWithManifest =>
        LET target == fs.monorepo.targets[ret.zone_name]
        IN  /\ target.exists
            /\ "tsconfig.json" \in target.entries
            /\ "node_modules" \notin target.entries
            /\ "stale.ts" \notin target.entries

SyncAllReturned == call = "sync_all_clients" /\ pc = "synced"

\* C24: with monorepo integration enabled, sync_all_clients records a result
\* for every zone directory, a failed one for a zone whose sync failed, and
\* syncs every other zone; successful + failed = total_synced = number of
\* zone directories; the outcome of the build changes no result. With it
\* disabled the monorepo is left as it was.
C24_SyncFailuresAreIsolated ==
    SyncAllReturned =>
        IF config.monorepo_enabled
        THEN LET res == ret.result
                 dirs == DOMAIN fs.clients
             IN  /\ DOMAIN res.typescript = dirs
                 /\ \A z \in dirs :
                       /\ res.typescript[z].success
                              <=> (ret.faults[z] = "none" /\ ret.before.exists)
                       /\ res.typescript[z].success =>
                              /\ fs.monorepo.targets[z].exists
                              /\ fs.clients[z].entries \ {"package.json", "node_modules"}
                                     \subseteq fs.monorepo.targets[z].entries
                 /\ res.summary.successful
                        = Cardinality({ z \in dirs : res.typescript[z].success })
                 /\ res.summary.successful + res.summary.failed = res.summary.total_synced
                 /\ res.summary.total_synced = Cardinality(dirs)
        ELSE fs.monorepo = ret.before /\ ~ret.result.success

C24_Witness ==
    /\ SyncAllReturned
    /\ config.monorepo_enabled
    /\ ret.build = "nonzero"
    /\ fs.monorepo.build_manifest
    /\ DOMAIN fs.clients = SyncZones
    /\ ret.faults["za"] = "copy_error"
    /\ ~ret.result.typescript["za"].success
    /\ ret.result.typescript["zb"].success
    /\ ret.result.summary.failed = 1

(***************************************************************************)
(* Claims about the stages of generate_all                                 *)
(***************************************************************************)
\* the work items of the stage that is running
StageItems == DOMAIN tasks

SyncStageOver ==
    /\ call = "generate_all"
    /\ config.monorepo_enabled
    /\ \/ pc = "summarize"
       \/ pc = "raised" /\ ret.from = "sync"

\* the zones the multithreaded sync submits
SyncItems == Successful(ts_results)

PoolRule(items) ==
    /\ mode = "pool" <=> UsePool(config.enable_multithreading, Cardinality(items),
                                 config.max_workers)
    /\ mode = "pool" =>
          /\ pool_size = Min(config.max_workers, Cardinality(items))
          /\ pool_size >= 1
          /\ pool_size <= config.max_workers

\* C25: at every stage (schemas, TypeScript, Python, the combined client
\* pool, monorepo sync) the executor is used iff multithreading is enabled,
\* more than one work item is submitted and max_workers > 1, and it has
\* min(max_workers, number of work items) workers, between 1 and max_workers
C25_PoolIffEnabledAndSeveralItems ==
    /\ pc \in StagePcs => PoolRule(StageItems)
    /\ SyncStageOver => PoolRule(SyncItems)

\* the rule at the generation stages alone
GenerationStagesFollowPoolRule == pc \in StagePcs => PoolRule(StageItems)

AllResolved == \A t \in DOMAIN tasks : tasks[t].status = "collected"

ClientStagePcs == {"ts", "py", "clients"}

\* C26: in a generate_all run the stages of a zone come in the order schema,
\* then the TypeScript and Python clients, then the consolidated index, then
\* the archive, then the monorepo sync: a client work item exists only for a
\* zone whose schema task has finished, and the index, the archive and the
\* sync come only when every client work item has finished
C26_StagesInFixedOrder ==
    call = "generate_all" =>
        /\ pc \in ClientStagePcs =>
              /\ \A t \in DOMAIN tasks : KindOf(t) # "schema" /\ ZoneOf(t) \in schemas
              /\ DOMAIN ts_results \cup DOMAIN py_results \subseteq schemas
        /\ pc \in {"generate_schemas", "schemas"} =>
              /\ ts_results = <<>> /\ py_results = <<>>
              /\ fs.ts_dirs = {} /\ fs.py_dirs = {}
              /\ \A i \in invoked : i[1] = "schema"
        /\ pc \in {"generate_schemas", "schemas", "schemas_done", "ts", "ts_done", "py",
                   "clients"} =>
              ~fs.index /\ fs.archive = EmptyArchive
        /\ pc \in {"py_done", "clients_done", "archive"} =>
              AllResolved /\ fs.archive = EmptyArchive
        /\ pc \in {"sync", "summarize"} => AllResolved

C26_Witness ==
    /\ call = "generate_all"
    /\ pc = "summarize"
    /\ mode = "pool"
    /\ Cardinality(schemas) = 2
    /\ Cardinality(DOMAIN tasks) = 4
    /\ fs.index
    /\ fs.archive.zips # {}

\* C27: clients/typescript/index.ts and every archive/latest/<zone>.zip are
\* written only when all client work items of the run have been resolved
\* and no schema or client stage is running
C27_GlobalTargetsWrittenAfterBarrier ==
    [][(call = "generate_all"
          /\ \/ fs'.index /\ ~fs.index
             \/ ~(fs'.archive.latest \subseteq fs.archive.latest))
         => (AllResolved /\ Running = {} /\ pc \notin StagePcs)]_vars

C27_Witness ==
    /\ call = "generate_all"
    /\ mode = "pool"
    /\ pc = "sync"
    /\ fs.index
    /\ Cardinality(fs.archive.latest) = 2
    /\ \E t \in DOMAIN tasks : KindOf(t) = "py_wrap"

(***************************************************************************)
(* The files a work item writes                                            *)
(***************************************************************************)
\* mutant: both client generators write into clients/<zone>
WriteSet_SharedClientDirectory(t) ==
    CASE StageOf(t) = "schema" -> {<<"schemas", ZoneOf(t)>>}
      [] OTHER -> {<<"clients", ZoneOf(t)>>}

\* schema_file = schemas_dir / f"{zone_name}.yaml", and zone_output_dir =
\* output_dir / zone_name of the TypeScript and of the Python generator
WriteSet(t) ==
    CASE StageOf(t) = "schema" -> {<<"schemas", ZoneOf(t)>>}
      [] StageOf(t) = "ts" -> {<<"clients/typescript", ZoneOf(t)>>}
      [] OTHER -> {<<"clients/python", ZoneOf(t)>>}

SymDiff(a, b) == (a \ b) \cup (b \ a)

\* the paths in which two states of the output directory differ
Touched(f, g) ==
    { <<"schemas", z>> : z \in SymDiff(f.schema_files, g.schema_files) }
    \cup { <<"clients/typescript", z>> : z \in SymDiff(f.ts_dirs, g.ts_dirs) }
    \cup { <<"clients/python", z>> : z \in SymDiff(f.py_dirs, g.py_dirs) }
    \cup (IF f.index # g.index THEN {<<"clients/typescript", "index.ts">>} ELSE {})
    \cup (IF f.archive # g.archive THEN {<<"archive", "">>} ELSE {})

\* a worker thread brings work item t to its end in this step
WorkerStep(t) ==
    /\ pc \in StagePcs
    /\ mode = "pool"
    /\ DOMAIN tasks' = DOMAIN tasks
    /\ tasks[t].status = "running"
    /\ tasks'[t].status = "done"

ListedInRegistry == config.requested.names \cap config.registry

\* C29: a call of generate_schemas or generate_all with a zone list, the
\* empty list included, processes the zones that are in the list and in the
\* registry only: the keys of what it returns are names of the list, and
\* total_zones is the number of listed zones of the registry
C29_OnlyListedZonesAreProcessed ==
    (pc = "returned" /\ config.requested.given) =>
        /\ ret.kind = "schemas" =>
              /\ ret.keys \subseteq config.requested.names
              /\ to_process = ListedInRegistry
        /\ ret.kind = "summary" =>
              /\ DOMAIN ret.typescript_results \subseteq config.requested.names
              /\ DOMAIN ret.python_results \subseteq config.requested.names
              /\ ret.total_zones = Cardinality(ListedInRegistry)

\* the same for lists that name at least one zone
NonEmptyListsAreFilters ==
    config.requested.names # {} => C29_OnlyListedZonesAreProcessed

(***************************************************************************)
(* Specification of archive_all_clients called on two result maps          *)
(***************************************************************************)
\* result maps: a zone has no result, a failed one or a successful one
ResultMaps == UNION { [d -> {"ok", "failed"}] : d \in SUBSET SyncZones }

ResultsFrom(m, path) ==
    [z \in DOMAIN m |->
        IF m[z] = "ok" THEN GenerationResult(TRUE, z, path, 1, "")
        ELSE failed_result(z, "boom")]

InitArchiveAll ==
    /\ raw_zones = <<>> /\ settings = Unbuilt /\ zones = <<>> /\ urlconfs = <<>>
    /\ call = "archive_all_clients"
    /\ config = <<>>
    /\ outcome = <<>>
    /\ pc = "idle"
    /\ to_process = {}
    /\ mode = "seq"
    /\ pool_size = 0
    /\ tasks = <<>>
    /\ schemas = {}
    /\ \E m \in ResultMaps : ts_results = ResultsFrom(m, "typescript")
    /\ \E m \in ResultMaps : py_results = ResultsFrom(m, "python")
    /\ \E ts_dirs \in SUBSET SyncZones, py_dirs \in SUBSET SyncZones :
          fs = [NoFiles EXCEPT !.ts_dirs = ts_dirs, !.py_dirs = py_dirs]
    /\ invoked = {}
    /\ ret = <<>>
    /\ prev = <<>>
    /\ now = 0

ArchiveAllClients ==
    /\ call = "archive_all_clients"
    /\ pc = "idle"
    /\ \E t \in ClockReadings, fail \in FailPoints :
          LET r == archive_all_results(NoArchiveResults(fs.archive), 1, ts_results,
                                       py_results, fs, t, fail)
          IN  /\ fs' = [fs EXCEPT !.archive = r.archive]
              /\ ret' = [kind |-> "archive_all", zones |-> r.zones, summary |-> r.summary]
              /\ now' = t
    /\ pc' = "archived"
    /\ UNCHANGED <<regvars, call, config, outcome, to_process, mode, pool_size, tasks,
                   schemas, ts_results, py_results, invoked, prev>>

NextArchiveAll == ArchiveAllClients

SpecArchiveAll == InitArchiveAll /\ [][NextArchiveAll]_vars

ArchivedZones == DOMAIN ts_results \cup DOMAIN py_results

SucceededIn(results, z) == z \in DOMAIN results /\ results[z].success

\* C30: archive_all_clients makes one archive_zone_clients call for every
\* zone with a TypeScript or a Python result and passes the output path of a
\* result only if the result is a success; a zone without a successful
\* result gets a failed archive result and no archive file; successful +
\* failed = total_zones = the number of such zones
C30_OnlySuccessfulClientsArchived ==
    (call = "archive_all_clients" /\ pc = "archived") =>
        /\ DOMAIN ret.zones = ArchivedZones
        /\ \A z \in ArchivedZones :
              /\ ret.zones[z].typescript_path.given <=> SucceededIn(ts_results, z)
              /\ ret.zones[z].python_path.given <=> SucceededIn(py_results, z)
              /\ (~SucceededIn(ts_results, z) /\ ~SucceededIn(py_results, z)) =>
                     /\ ~ret.zones[z].success
                     /\ ~\E a \in fs.archive.zips : a.zone = z
                     /\ ~\E a \in fs.archive.latest : a.zone = z
        /\ ret.summary.successful = Cardinality({ z \in ArchivedZones : ret.zones[z].success })
        /\ ret.summary.successful + ret.summary.failed = ret.summary.total_zones
        /\ ret.summary.total_zones = Cardinality(ArchivedZones)

C30_Witness ==
    /\ call = "archive_all_clients"
    /\ pc = "archived"
    /\ ArchivedZones = SyncZones
    /\ "za" \in DOMAIN ts_results /\ ~ts_results["za"].success
    /\ "za" \in fs.ts_dirs
    /\ "za" \notin DOMAIN py_results
    /\ ~ret.zones["za"].success
    /\ ret.zones["zb"].success
    /\ ret.zones["zb"].typescript_path.given /\ ~ret.zones["zb"].python_path.given
    /\ ret.summary.failed = 1

====
